---- MODULE Spec2Model ----
(***************************************************************************)
(* A model of the X12 837 claim parser of the Claim Viewer                 *)
(* (claim_viewer/priv/python/parser_for_viewer.py).                        *)
(*                                                                         *)
(* Text is a sequence of one-character strings, so that stripping,         *)
(* splitting, upper-casing and searching are computed, not assumed.        *)
(* A Python dict is a function from its keys to its values; the dicts the  *)
(* parser shares between several owners (the address dicts) live in an     *)
(* explicit heap and are held by reference.                                *)
(***************************************************************************)
EXTENDS Integers, Sequences, FiniteSets, TLC

VARIABLES
    \* ---- read_x12_segments ------------------------------------------
    doc,              \* how the input document was put together (ghost)
    content,          \* the decoded text of the file
    rd_pc,            \* position in read_x12_segments
    parse_start,      \* offset (1-based) where the X12 data starts
    ele_sep,          \* detected element separator
    seg_term,         \* detected segment terminator
    \* ---- parse_x12_for_viewer ---------------------------------------
    segments,         \* the (seg_id, elements) pairs consumed so far
    transaction, submitter, receiver, billing_provider,
    pay_to_provider, subscriber, payer,
    current_claim,    \* <<>> for None, <<claim>> for the claim being built
    claims_data,      \* all completed claims
    temp_addresses,   \* entity |-> reference of its buffered address dict
    current_entity,   \* "None" or the entity of the last NM1
    heap,             \* the address dicts, by reference (index)
    pc,               \* position in parse_x12_for_viewer
    results,          \* the section arrays built at the end
    ret,              \* what the call returns or raises
    family,           \* the segments the stream is drawn from
    \* ---- the value helpers, called on their own ---------------------
    given,            \* the argument of the call
    helped            \* which helper was called and what it returned

rd_vars == <<doc, content, rd_pc, parse_start, ele_sep, seg_term>>
asm_vars == <<segments, transaction, submitter, receiver, billing_provider,
              pay_to_provider, subscriber, payer, current_claim, claims_data,
              temp_addresses, current_entity, heap, pc, results, ret, family>>
helper_vars == <<given, helped>>
vars == <<rd_vars, asm_vars, helper_vars>>

-----------------------------------------------------------------------------
(* Characters and the string methods the parser uses.                      *)

Digits == {"0", "1", "2", "3", "4", "5", "6", "7", "8", "9"}
UpperSeq == <<"A", "B", "C", "D", "E", "F", "G", "H", "I", "J", "K", "L", "M",
              "N", "O", "P", "Q", "R", "S", "T", "U", "V", "W", "X", "Y", "Z">>
LowerSeq == <<"a", "b", "c", "d", "e", "f", "g", "h", "i", "j", "k", "l", "m",
              "n", "o", "p", "q", "r", "s", "t", "u", "v", "w", "x", "y", "z">>
UpperLetters == {UpperSeq[i] : i \in DOMAIN UpperSeq}
LowerLetters == {LowerSeq[i] : i \in DOMAIN LowerSeq}

\* str.isalnum() and the regex class [A-Za-z0-9] (they agree on ASCII text)
IsAlnum(c) == c \in Digits \cup UpperLetters \cup LowerLetters

\* what str.strip() removes and what the regex class \s matches (ASCII)
Whitespace == {" ", "\t", "\n", "\r", "\f"}

\* str.upper() of one character
UpperChar(c) ==
    IF c \in LowerLetters
    THEN UpperSeq[CHOOSE i \in DOMAIN LowerSeq : LowerSeq[i] = c]
    ELSE c

\* str.upper()
Upper(s) == [i \in DOMAIN s |-> UpperChar(s[i])]

\* s[from:] with a 1-based offset
Tail_from(s, from) == SubSeq(s, from, Len(s))

\* str.strip()
Strip(s) ==
    LET keep == {i \in DOMAIN s : s[i] \notin Whitespace}
    IN  IF keep = {} THEN <<>>
        ELSE SubSeq(s, CHOOSE i \in keep : \A j \in keep : i <= j,
                       CHOOSE i \in keep : \A j \in keep : j <= i)

\* str.replace(c, '')
RECURSIVE Remove(_, _)
Remove(s, c) ==
    IF s = <<>> THEN <<>>
    ELSE (IF Head(s) = c THEN <<>> ELSE <<Head(s)>>) \o Remove(Tail(s), c)

\* first position of character c in s, 0 when absent
IndexOf(s, c) ==
    LET at == {i \in DOMAIN s : s[i] = c}
    IN  IF at = {} THEN 0 ELSE CHOOSE i \in at : \A j \in at : i <= j

\* str.split(sep, maxsplit) for a one-character sep
RECURSIVE SplitMax(_, _, _)
SplitMax(s, sep, maxsplit) ==
    LET i == IndexOf(s, sep)
    IN  IF maxsplit = 0 \/ i = 0 THEN <<s>>
        ELSE <<SubSeq(s, 1, i - 1)>> \o SplitMax(Tail_from(s, i + 1), sep, maxsplit - 1)

\* str.split(sep) for a one-character sep
Split(s, sep) == SplitMax(s, sep, Len(s))

\* sep.join(parts)
RECURSIVE Join(_, _)
Join(parts, sep) ==
    IF parts = <<>> THEN <<>>
    ELSE IF Len(parts) = 1 THEN parts[1]
    ELSE parts[1] \o sep \o Join(Tail(parts), sep)

\* the concatenation of a sequence of strings
Concat(parts) == Join(parts, <<>>)

-----------------------------------------------------------------------------
(* read_x12_segments, step 2: find the start of the data and the           *)
(* delimiters.                                                             *)

\* where re.search(r'ISA(.)', content, re.IGNORECASE) can match: "ISA" in any
\* letter case followed by any character but a newline
IsaMatchAt(text, i) ==
    /\ i + 3 <= Len(text)
    /\ Upper(SubSeq(text, i, i + 2)) = <<"I", "S", "A">>
    /\ text[i + 3] # "\n"

\* the start of the leftmost match, 0 when there is none
IsaSearch(text) ==
    LET at == {i \in DOMAIN text : IsaMatchAt(text, i)}
    IN  IF at = {} THEN 0 ELSE CHOOSE i \in at : \A j \in at : i <= j

\* where re.search(r'(?<![A-Za-z0-9])ST([^A-Za-z0-9\s])', content) can match
StMatchAt(text, i) ==
    /\ i + 2 <= Len(text)
    /\ SubSeq(text, i, i + 1) = <<"S", "T">>
    /\ ~IsAlnum(text[i + 2])
    /\ text[i + 2] \notin Whitespace
    /\ (i > 1 => ~IsAlnum(text[i - 1]))

StSearch(text) ==
    LET at == {i \in DOMAIN text : StMatchAt(text, i)}
    IN  IF at = {} THEN 0 ELSE CHOOSE i \in at : \A j \in at : i <= j

\* the scan for the segment terminator on the ST path: the first character
\* that is not alphanumeric, not the element separator and not one of
\* ' ', '\t', ':', '-'; '~' when the scan finds none
StScanTerm(text, sep) ==
    LET at == {i \in DOMAIN text :
                  ~(IsAlnum(text[i]) \/ text[i] = sep
                      \/ text[i] \in {" ", "\t", ":", "-"})}
    IN  IF at = {} THEN "~"
        ELSE text[CHOOSE i \in at : \A j \in at : i <= j]

\* the number of pieces the ISA path asks of split(ele_sep, 17)
IsaMaxSplit == 17
IsaMinParts == 17
\* the least length of parts[16]
IsaMinAfter == 2

\* DetectIsa taking the first character after the 16th separator
DetectIsa_FirstChar(text, at) ==
    LET sep   == text[at + 3]
        parts == SplitMax(Tail_from(text, at), sep, IsaMaxSplit)
    IN  IF Len(parts) < IsaMinParts
        THEN [ok |-> FALSE, error |-> "ISA segment does not have 16 element separators"]
        ELSE IF Len(parts[17]) < IsaMinAfter
        THEN [ok |-> FALSE, error |-> "Cannot determine segment terminator from ISA16"]
        ELSE [ok |-> TRUE, path |-> "ISA", parse_start |-> at,
              ele_sep |-> sep, seg_term |-> parts[17][1]]

\* DetectIsa splitting into at most 17 pieces, the last being all the rest
DetectIsa_Limit17(text, at) ==
    LET sep   == text[at + 3]
        parts == SplitMax(Tail_from(text, at), sep, IsaMaxSplit - 1)
    IN  IF Len(parts) < IsaMinParts
        THEN [ok |-> FALSE, error |-> "ISA segment does not have 16 element separators"]
        ELSE IF Len(parts[17]) < IsaMinAfter
        THEN [ok |-> FALSE, error |-> "Cannot determine segment terminator from ISA16"]
        ELSE [ok |-> TRUE, path |-> "ISA", parse_start |-> at,
              ele_sep |-> sep, seg_term |-> parts[17][2]]

\* the ISA path: (ok, parse_start, ele_sep, seg_term) or the RuntimeError
DetectIsa(text, at) ==
    LET sep   == text[at + 3]
        parts == SplitMax(Tail_from(text, at), sep, IsaMaxSplit)
    IN  IF Len(parts) < IsaMinParts
        THEN [ok |-> FALSE, error |-> "ISA segment does not have 16 element separators"]
        ELSE IF Len(parts[17]) < IsaMinAfter
        THEN [ok |-> FALSE, error |-> "Cannot determine segment terminator from ISA16"]
        ELSE [ok |-> TRUE, path |-> "ISA", parse_start |-> at,
              ele_sep |-> sep, seg_term |-> parts[17][2]]

\* the ST path
DetectSt(text) ==
    LET at == StSearch(text)
    IN  IF at = 0
        THEN [ok |-> FALSE, error |-> "Not a valid X12 file: no ISA or ST segment found"]
        ELSE [ok |-> TRUE, path |-> "ST", parse_start |-> at,
              ele_sep |-> text[at + 2],
              seg_term |-> StScanTerm(Tail_from(text, at), text[at + 2])]

\* step 2 as a whole
DetectDelimiters(text) ==
    IF IsaSearch(text) # 0 THEN DetectIsa(text, IsaSearch(text))
    ELSE DetectSt(text)

-----------------------------------------------------------------------------
(* read_x12_segments, step 3: split the content into segments.             *)

\* SegmentOf keeping the chunks whose first field is blank
SegmentOf_KeepsBlankId(raw_seg, sep) ==
    LET seg      == Strip(raw_seg)
        elements == Split(seg, sep)
    IN  IF seg = <<>> THEN <<>>
        ELSE <<[seg_id |-> Upper(Strip(elements[1])), elements |-> elements]>>

\* one chunk between two terminators: nothing, or one (seg_id, elements)
SegmentOf(raw_seg, sep) ==
    LET seg      == Strip(raw_seg)
        elements == Split(seg, sep)
        seg_id   == Upper(Strip(elements[1]))
    IN  IF seg = <<>> THEN <<>>
        ELSE IF seg_id = <<>> THEN <<>>
        ELSE <<[seg_id |-> seg_id, elements |-> elements]>>

RECURSIVE SegmentsOf(_, _)
SegmentsOf(chunks, sep) ==
    IF chunks = <<>> THEN <<>>
    ELSE SegmentOf(Head(chunks), sep) \o SegmentsOf(Tail(chunks), sep)

SplitSegments(text, start, sep, term) ==
    SegmentsOf(Split(Tail_from(text, start), term), sep)

-----------------------------------------------------------------------------
(* The documents read_x12_segments is run on.  A document is put together  *)
(* from its parts, which are kept in doc so that a property can speak of   *)
(* "the character after the 16th element" of the header as written.        *)

\* the number of data elements of an ISA header
IsaElements == 16
\* headers with IsaElements - ElemSlack .. IsaElements + ElemSlack elements
ElemSlack == 1
\* how many segments may follow the header
MaxRest == 2

SepChars == {"*", "|", "X"}
TermChars == {"~", "\n", "Z"}
Leads == {<<>>, <<"\n">>}
IsaMarks == {<<"I", "S", "A">>, <<"i", "s", "a">>}
Fills == {<<>>, <<"0", "0">>}
Isa16Values == {<<>>, <<":">>, <<":", ">">>}

\* the segments after the header, as element lists
RestSegments == <<  <<<<"G", "S">>, <<"H", "C">>>>,  <<<<"S", "E">>>>  >>

\* n copies of x
Copies(n, x) == [i \in 1..n |-> x]

\* seg_1 term seg_2 term ... of the first n segments of segs
RECURSIVE Render(_, _, _, _)
Render(segs, n, sep, term) ==
    IF n = 0 \/ segs = <<>> THEN <<>>
    ELSE Join(Head(segs), <<sep>>) \o term \o Render(Tail(segs), n - 1, sep, term)

IsaDocs ==
    [kind : {"ISA"}, lead : Leads, mark : IsaMarks, sep : SepChars,
     nelems : (IsaElements - ElemSlack)..(IsaElements + ElemSlack),
     fill : Fills, isa16 : Isa16Values,
     term : {<<>>} \cup {<<t>> : t \in TermChars}, nrest : 0..MaxRest]

\* the text of an ISA document: the header's elements are fill, but for the
\* 16th, which is isa16
IsaText(d) ==
    LET elems == [i \in 1..d.nelems |-> IF i = IsaElements THEN d.isa16 ELSE d.fill]
    IN  d.lead \o Join(<<d.mark>> \o elems, <<d.sep>>) \o d.term
            \o Render(RestSegments, d.nrest, d.sep, d.term)

\* documents without an ISA envelope
StPres == {<<>>, <<"\n">>, <<"B", "E">>}
StAfters == {"*", "~", " ", "1"}
StBodies == {<<>>, <<"8", "3", "7">>}
StTails == <<  <<<<"N", "4">>, <<"V", "I", "S", "A", "L", "I", "A">>>>,
               <<<<"S", "T">>, <<"2">>>>,
               <<<<"N", "M", "1">>, <<"I", "L">>>>  >>

StDocs ==
    [kind : {"ST"}, pre : StPres, after : StAfters, body : StBodies,
     term : {<<>>} \cup {<<t>> : t \in TermChars \ {"Z"}},
     tail : 0..Len(StTails)]

\* the text of an ST document: pre "ST" after body term, then at most one
\* of the tail segments, written with "*" when after is no separator
StText(d) ==
    LET sep == IF IsAlnum(d.after) \/ d.after \in Whitespace THEN "*" ELSE d.after
    IN  d.pre \o <<"S", "T", d.after>> \o d.body \o d.term
            \o (IF d.tail = 0 THEN <<>>
                ELSE Join(StTails[d.tail], <<sep>>) \o d.term)

Documents == IsaDocs \cup StDocs
TextOf(d) == IF d.kind = "ISA" THEN IsaText(d) ELSE StText(d)

-----------------------------------------------------------------------------
(* read_x12_segments as a process: detect, then split.                     *)

EmptyDict == <<>>
NoResult == [kind |-> "none"]
RuntimeError(msg) == [kind |-> "error", error |-> msg]

\* the assembler's variables before parse_x12_for_viewer has done anything
AsmIdle ==
    /\ segments = <<>>
    /\ transaction = EmptyDict /\ submitter = EmptyDict /\ receiver = EmptyDict
    /\ billing_provider = EmptyDict /\ pay_to_provider = EmptyDict
    /\ subscriber = EmptyDict /\ payer = EmptyDict
    /\ current_claim = <<>> /\ claims_data = <<>>
    /\ temp_addresses = EmptyDict /\ current_entity = "None"
    /\ heap = <<>> /\ results = <<>> /\ ret = NoResult

\* no value helper is being called on its own
NotCalled == [fn |-> "none", out |-> <<>>]
HelperIdle == given = <<>> /\ helped = NotCalled

ReadInit ==
    /\ doc \in Documents
    /\ content = TextOf(doc)
    /\ rd_pc = "detect"
    /\ parse_start = 0 /\ ele_sep = "" /\ seg_term = ""
    /\ AsmIdle /\ pc = "read" /\ family = {}
    /\ HelperIdle

\* what step 2 leaves behind, whichever path it took
Detected(r) ==
    IF r.ok
    THEN /\ parse_start' = r.parse_start
         /\ ele_sep' = r.ele_sep
         /\ seg_term' = r.seg_term
         /\ rd_pc' = "split"
         /\ UNCHANGED ret
    ELSE /\ rd_pc' = "error"
         /\ ret' = RuntimeError(r.error)
         /\ UNCHANGED <<parse_start, ele_sep, seg_term>>

\* isa_match is not None: the ISA path
DetectViaIsa ==
    /\ rd_pc = "detect"
    /\ IsaSearch(content) # 0
    /\ Detected(DetectIsa(content, IsaSearch(content)))
    /\ UNCHANGED <<doc, content, segments, transaction, submitter, receiver,
                   billing_provider, pay_to_provider, subscriber, payer,
                   current_claim, claims_data, temp_addresses, current_entity,
                   heap, pc, results, family, helper_vars>>

\* isa_match is None: the ST path
DetectViaSt ==
    /\ rd_pc = "detect"
    /\ IsaSearch(content) = 0
    /\ Detected(DetectSt(content))
    /\ UNCHANGED <<doc, content, segments, transaction, submitter, receiver,
                   billing_provider, pay_to_provider, subscriber, payer,
                   current_claim, claims_data, temp_addresses, current_entity,
                   heap, pc, results, family, helper_vars>>

\* step 3, and the return of (segments, ele_sep, seg_term)
SplitStep ==
    /\ rd_pc = "split"
    /\ segments' = SplitSegments(content, parse_start, ele_sep, seg_term)
    /\ rd_pc' = "done"
    /\ UNCHANGED <<doc, content, parse_start, ele_sep, seg_term, transaction,
                   submitter, receiver, billing_provider, pay_to_provider,
                   subscriber, payer, current_claim, claims_data,
                   temp_addresses, current_entity, heap, pc, results, ret,
                   family, helper_vars>>

ReadNext == DetectViaIsa \/ DetectViaSt \/ SplitStep

SpecRead == ReadInit /\ [][ReadNext]_vars

-----------------------------------------------------------------------------
(* The value helpers.                                                      *)

\* a string literal as text
Str(s) == [i \in 1..Len(s) |-> SubSeq(s, i, i)]

Last(s) == s[Len(s)]

\* el(elements, index): elements[index] (0-based) or "" when out of range
el(elements, index) ==
    IF Len(elements) > index THEN elements[index + 1] ELSE <<>>

\* clean_value with the strip done before the tildes are taken out
clean_value_StripsFirst(value) ==
    IF value = <<>> THEN <<>> ELSE Remove(Strip(value), "~")

clean_value(value) ==
    IF value = <<>> THEN <<>> ELSE Strip(Remove(value, "~"))

\* clean_code with the part after the first colon
clean_code_FirstColon(code) ==
    IF code = <<>> THEN <<>>
    ELSE IF IndexOf(clean_value(code), ":") # 0
         THEN Split(clean_value(code), ":")[2]
         ELSE clean_value(code)

clean_code(code) ==
    IF code = <<>> THEN <<>>
    ELSE LET cleaned == clean_value(code)
         IN  IF IndexOf(cleaned, ":") # 0
             THEN Last(Split(cleaned, ":"))
             ELSE cleaned

\* parse_date taking every text of 8 characters or more
parse_date_AtLeast(date_str) ==
    IF date_str = <<>> \/ Len(date_str) < 8 THEN date_str
    ELSE SubSeq(date_str, 1, 4) \o <<"-">> \o SubSeq(date_str, 5, 6)
             \o <<"-">> \o SubSeq(date_str, 7, 8)

parse_date(date_str) ==
    IF date_str = <<>> \/ Len(date_str) # 8 THEN date_str
    ELSE SubSeq(date_str, 1, 4) \o <<"-">> \o SubSeq(date_str, 5, 6)
             \o <<"-">> \o SubSeq(date_str, 7, 8)

parse_time(time_str) ==
    IF time_str = <<>> \/ Len(time_str) < 4 THEN time_str
    ELSE SubSeq(time_str, 1, 2) \o <<":">> \o SubSeq(time_str, 3, 4)

\* A Python number: num * 10^e10, or inf, -inf, nan.  A finite number is
\* kept normalised (num not a multiple of 10 unless it is 0), so that equal
\* numbers are equal values: 0 == 0.0, 12.5 == 12.50.
Finite(num, e10) == [num |-> num, e10 |-> e10, special |-> ""]
Special(name) == [num |-> 0, e10 |-> 0, special |-> name]
Zero == Finite(0, 0)

RECURSIVE Normalised(_, _)
Normalised(num, e10) ==
    IF num = 0 THEN Zero
    ELSE IF num % 10 = 0 THEN Normalised(num \div 10, e10 + 1)
    ELSE Finite(num, e10)

DigitSeq == <<"0", "1", "2", "3", "4", "5", "6", "7", "8", "9">>
DigitValue(c) == (CHOOSE i \in DOMAIN DigitSeq : DigitSeq[i] = c) - 1

\* digits with single underscores between them, as int() and float() take
IsDigitGroup(s) ==
    /\ s # <<>>
    /\ s[1] \in Digits /\ s[Len(s)] \in Digits
    /\ \A i \in DOMAIN s : s[i] \in Digits \cup {"_"}
    /\ \A i \in 1..(Len(s) - 1) : ~(s[i] = "_" /\ s[i + 1] = "_")

RECURSIVE DigitsValue(_, _)
DigitsValue(s, acc) ==
    IF s = <<>> THEN acc
    ELSE IF Head(s) = "_" THEN DigitsValue(Tail(s), acc)
    ELSE DigitsValue(Tail(s), 10 * acc + DigitValue(Head(s)))

HasSign(s) == s # <<>> /\ s[1] \in {"+", "-"}
Unsigned(s) == IF HasSign(s) THEN Tail(s) ELSE s
SignOf(s) == IF s # <<>> /\ s[1] = "-" THEN -1 ELSE 1

\* int(text): <<n>>, or <<>> for a ValueError
IntOfStripped(s) ==
    IF IsDigitGroup(Unsigned(s))
    THEN <<SignOf(s) * DigitsValue(Unsigned(s), 0)>>
    ELSE <<>>
IntOf(text) == IntOfStripped(Strip(text))

\* the digits of a digit group, underscores dropped
DigitsOnly(s) == Remove(s, "_")

\* the position of the first c in s, or one past its end
PosOrEnd(s, c) == IF IndexOf(s, c) # 0 THEN IndexOf(s, c) ELSE Len(s) + 1

\* the number with integer digits ipart, fraction digits fpart and exponent
\* text expo (noexp: there is no exponent), or <<>> when one of them is
\* not well formed
FloatOfParts(sign, ipart, fpart, expo, noexp) ==
    IF /\ ipart = <<>> \/ IsDigitGroup(ipart)
       /\ fpart = <<>> \/ IsDigitGroup(fpart)
       /\ ipart # <<>> \/ fpart # <<>>
       /\ noexp \/ IsDigitGroup(Unsigned(expo))
    THEN <<Normalised(sign * DigitsValue(ipart \o fpart, 0),
                      (IF noexp THEN 0 ELSE SignOf(expo) * DigitsValue(Unsigned(expo), 0))
                          - Len(DigitsOnly(fpart)))>>
    ELSE <<>>

\* the mantissa is split at its decimal point
FloatOfMantissa(sign, mant, expo, noexp) ==
    FloatOfParts(sign, SubSeq(mant, 1, PosOrEnd(mant, ".") - 1),
                 SubSeq(mant, PosOrEnd(mant, ".") + 1, Len(mant)), expo, noexp)

\* the text without its sign, upper-cased, is split at its first E
FloatOfWord(sign, word) ==
    IF word \in {Str("INF"), Str("INFINITY")}
    THEN <<Special(IF sign < 0 THEN "-inf" ELSE "inf")>>
    ELSE IF word = Str("NAN") THEN <<Special("nan")>>
    ELSE FloatOfMantissa(sign, SubSeq(word, 1, PosOrEnd(word, "E") - 1),
                         SubSeq(word, PosOrEnd(word, "E") + 1, Len(word)),
                         IndexOf(word, "E") = 0)

FloatOfStripped(s) == FloatOfWord(SignOf(s), Upper(Unsigned(s)))

\* float(text): <<number>>, or <<>> for a ValueError.  Exact for the texts
\* whose value a double holds exactly enough to tell them apart (short
\* mantissas, small exponents).
FloatOf(text) == FloatOfStripped(Strip(text))

\* OrZero letting the failure through
OrZero_NoDefault(parsed) == IF parsed = <<>> THEN Special("error") ELSE parsed[1]

\* the parsed number, or the default 0 when the text did not parse
OrZero(parsed) == IF parsed = <<>> THEN Zero ELSE parsed[1]

\* safe_int(value): int(clean_value(value)) or 0; 0 when it does not parse
IntOrZero(parsed) == IF parsed = <<>> THEN Zero ELSE Normalised(parsed[1], 0)
safe_int(value) ==
    IF value = <<>> THEN Zero ELSE IntOrZero(IntOf(clean_value(value)))

\* safe_float(value): float(clean_value(value)); 0.0 when the value or the
\* cleaned value is empty (float('') does not parse either) or when it does
\* not parse
safe_float(value) ==
    IF value = <<>> THEN Zero ELSE OrZero(FloatOf(clean_value(value)))

-----------------------------------------------------------------------------
(* parse_x12_for_viewer: dicts, the heap of address dicts, the claim.      *)

\* d[k] = v
Put(d, k, v) == [x \in DOMAIN d \cup {k} |-> IF x = k THEN v ELSE d[x]]
\* k in d
Has(d, k) == k \in DOMAIN d
\* d.get(k, default)
Get(d, k, default) == IF k \in DOMAIN d THEN d[k] ELSE default
\* d.update(e)
Update(d, e) ==
    [x \in DOMAIN d \cup DOMAIN e |-> IF x \in DOMAIN e THEN e[x] ELSE d[x]]

\* a new dict on the heap holds the next reference
NewRef(h) == Len(h) + 1
Alloc(h, d) == Append(h, d)
\* the dict behind reference r is updated in place
HeapUpdate(h, r, e) == [h EXCEPT ![r] = Update(h[r], e)]

\* current_claim is None / is a claim
NoClaim == <<>>
ClaimOpen == current_claim # NoClaim
TheClaim == current_claim[1]

\* the record a CLM segment opens
NewClaim(elements) ==
    [id |-> clean_value(el(elements, 1)),
     totalCharge |-> safe_float(el(elements, 2)),
     placeOfService |-> <<>>,
     serviceType |-> <<>>,
     indicators |-> [assigned          |-> clean_value(el(elements, 7)),
                     providerSignature |-> clean_value(el(elements, 6)),
                     releaseInfo       |-> clean_value(el(elements, 9)),
                     patientSignature  |-> clean_value(el(elements, 8)),
                     relatedCause      |-> <<>>],
     onsetDate |-> <<>>,
     clearinghouseClaimNumber |-> <<>>,
     diagnosis |-> [primary |-> <<>>, secondary |-> <<>>],
     serviceLines |-> <<>>]

\* the record an LX segment appends
NewServiceLine(elements) ==
    [lineNumber |-> safe_int(el(elements, 1)),
     codeQualifier |-> <<>>,
     procedureCode |-> <<>>,
     charge |-> Zero,
     unitQualifier |-> <<>>,
     units |-> Zero,
     diagnosisPointer |-> <<>>,
     emergencyIndicator |-> <<>>,
     serviceDate |-> <<>>]

\* the segment identifiers with a branch of their own in the main loop
ISA == Str("ISA")
ST  == Str("ST")
BHT == Str("BHT")
NM1 == Str("NM1")
N3  == Str("N3")
N4  == Str("N4")
PER == Str("PER")
SBR == Str("SBR")
DMG == Str("DMG")
CLM == Str("CLM")
HI  == Str("HI")
DTP == Str("DTP")
REF == Str("REF")
LX  == Str("LX")
SV1 == Str("SV1")

\* a tokenized segment, as read_x12_segments makes it from its elements
Seg(elements) == [seg_id |-> Upper(Strip(elements[1])), elements |-> elements]

\* the main loop takes one more segment
Consume(seg) == pc = "loop" /\ segments' = Append(segments, seg)

parties == <<transaction, submitter, receiver, billing_provider,
             pay_to_provider, subscriber, payer>>
claims == <<current_claim, claims_data>>
addressing == <<temp_addresses, current_entity, heap>>
output == <<results, ret>>
fixed == <<rd_vars, family, helper_vars>>

-----------------------------------------------------------------------------
(* The branches of the main loop.                                          *)

HandleISA(seg) ==
    /\ Consume(seg) /\ seg.seg_id = ISA
    /\ submitter' = Put(submitter, "name", clean_value(el(seg.elements, 6)))
    /\ receiver' = Put(Put(receiver, "name", clean_value(el(seg.elements, 8))),
                       "id", clean_value(el(seg.elements, 8)))
    /\ UNCHANGED <<transaction, billing_provider, pay_to_provider, subscriber,
                   payer, claims, addressing, output, fixed, pc>>

HandleST(seg) ==
    /\ Consume(seg) /\ seg.seg_id = ST
    /\ transaction' =
         Update(transaction,
                [type          |-> clean_value(el(seg.elements, 1)),
                 controlNumber |-> clean_value(el(seg.elements, 2)),
                 version       |-> clean_value(el(seg.elements, 3))])
    /\ UNCHANGED <<submitter, receiver, billing_provider, pay_to_provider,
                   subscriber, payer, claims, addressing, output, fixed, pc>>

HandleBHT(seg) ==
    /\ Consume(seg) /\ seg.seg_id = BHT
    /\ transaction' =
         Update(transaction,
                [purpose     |-> clean_value(el(seg.elements, 1)),
                 referenceId |-> clean_value(el(seg.elements, 3)),
                 date        |-> parse_date(clean_value(el(seg.elements, 4))),
                 time        |-> parse_time(clean_value(el(seg.elements, 5)))])
    /\ UNCHANGED <<submitter, receiver, billing_provider, pay_to_provider,
                   subscriber, payer, claims, addressing, output, fixed, pc>>

\* the entity a role code of NM1 selects, "" for a code that selects none
\* EntityOf taking every unrecognized code for the submitter's
EntityOf_UnknownIsSubmitter(entity_code) ==
    CASE entity_code = Str("40") -> "receiver"
      [] entity_code = Str("85") -> "billing_provider"
      [] entity_code = Str("87") -> "pay_to_provider"
      [] entity_code = Str("IL") -> "subscriber"
      [] entity_code = Str("PR") -> "payer"
      [] entity_code = Str("82") -> "rendering_provider"
      [] entity_code = Str("77") -> "service_facility"
      [] OTHER -> "submitter"

EntityOf(entity_code) ==
    CASE entity_code = Str("41") -> "submitter"
      [] entity_code = Str("40") -> "receiver"
      [] entity_code = Str("85") -> "billing_provider"
      [] entity_code = Str("87") -> "pay_to_provider"
      [] entity_code = Str("IL") -> "subscriber"
      [] entity_code = Str("PR") -> "payer"
      [] entity_code = Str("82") -> "rendering_provider"
      [] entity_code = Str("77") -> "service_facility"
      [] OTHER -> ""

HandleNM1(seg) ==
    LET entity_code  == clean_value(el(seg.elements, 1))
        entity_name  == clean_value(el(seg.elements, 3))
        entity_fname == clean_value(el(seg.elements, 4))
        entity_id    == clean_value(el(seg.elements, 9))
        entity       == EntityOf(entity_code)
        \* the entities whose branch makes a new address dict
        allocates    == \/ entity \in {"billing_provider", "pay_to_provider", "subscriber"}
                        \/ entity = "service_facility" /\ ClaimOpen
        fresh        == NewRef(heap)
    IN
    /\ Consume(seg) /\ seg.seg_id = NM1
    /\ current_entity' = IF entity = "" THEN current_entity ELSE entity
    /\ heap' = IF allocates THEN Alloc(heap, EmptyDict) ELSE heap
    /\ submitter' =
         IF entity = "submitter"
         THEN Update(submitter, [name |-> entity_name, id |-> entity_id])
         ELSE submitter
    /\ receiver' =
         IF entity = "receiver"
         THEN Update(receiver, [name |-> entity_name, id |-> entity_id])
         ELSE receiver
    /\ billing_provider' =
         IF entity = "billing_provider"
         THEN Update(billing_provider,
                     [name |-> entity_name, taxId |-> entity_id, address |-> fresh])
         ELSE billing_provider
    /\ pay_to_provider' =
         IF entity = "pay_to_provider"
         THEN Update(pay_to_provider,
                     [name |-> entity_name, taxId |-> entity_id, address |-> fresh])
         ELSE pay_to_provider
    /\ subscriber' =
         IF entity = "subscriber"
         THEN Update(subscriber,
                     [firstName |-> entity_fname, lastName |-> entity_name,
                      id |-> entity_id, address |-> fresh])
         ELSE subscriber
    /\ payer' =
         IF entity = "payer" /\ ~ClaimOpen
         THEN Update(payer, [name |-> entity_name, payerId |-> entity_id])
         ELSE payer
    /\ current_claim' =
         IF ~ClaimOpen THEN current_claim
         ELSE CASE entity = "payer" ->
                     <<Put(TheClaim, "payer",
                           [name |-> entity_name, payerId |-> entity_id])>>
                [] entity = "rendering_provider" ->
                     <<Put(TheClaim, "renderingProvider",
                           [firstName |-> entity_fname, lastName |-> entity_name,
                            npi |-> entity_id])>>
                [] entity = "service_facility" ->
                     <<Put(TheClaim, "serviceFacility",
                           [name |-> entity_name, taxId |-> entity_id,
                            address |-> fresh])>>
                [] OTHER -> current_claim
    /\ UNCHANGED <<transaction, claims_data, temp_addresses, output, fixed, pc>>

HandleN3(seg) ==
    /\ Consume(seg) /\ seg.seg_id = N3
    /\ heap' = Alloc(heap, [street |-> clean_value(el(seg.elements, 1))])
    /\ temp_addresses' = Put(temp_addresses, current_entity, NewRef(heap))
    /\ UNCHANGED <<parties, claims, current_entity, output, fixed, pc>>

HandleN4(seg) ==
    LET buffered == Has(temp_addresses, current_entity)
        addr     == temp_addresses[current_entity]
    IN
    /\ Consume(seg) /\ seg.seg_id = N4
    /\ heap' =
         IF buffered
         THEN HeapUpdate(heap, addr,
                         [city  |-> clean_value(el(seg.elements, 1)),
                          state |-> clean_value(el(seg.elements, 2)),
                          zip   |-> clean_value(el(seg.elements, 3))])
         ELSE heap
    /\ billing_provider' =
         IF buffered /\ current_entity = "billing_provider"
         THEN Put(billing_provider, "address", addr) ELSE billing_provider
    /\ pay_to_provider' =
         IF buffered /\ current_entity = "pay_to_provider"
         THEN Put(pay_to_provider, "address", addr) ELSE pay_to_provider
    /\ subscriber' =
         IF buffered /\ current_entity = "subscriber"
         THEN Put(subscriber, "address", addr) ELSE subscriber
    /\ current_claim' =
         IF /\ buffered /\ current_entity = "service_facility" /\ ClaimOpen
            /\ Has(TheClaim, "serviceFacility")
         THEN <<Put(TheClaim, "serviceFacility",
                    Put(TheClaim["serviceFacility"], "address", addr))>>
         ELSE current_claim
    /\ UNCHANGED <<transaction, submitter, receiver, payer, claims_data,
                   temp_addresses, current_entity, output, fixed, pc>>

HandlePER(seg) ==
    /\ Consume(seg) /\ seg.seg_id = PER
    /\ submitter' =
         IF current_entity = "submitter"
         THEN Put(submitter, "contact",
                  [name      |-> clean_value(el(seg.elements, 2)),
                   phone     |-> clean_value(el(seg.elements, 4)),
                   extension |-> clean_value(el(seg.elements, 6))])
         ELSE submitter
    /\ UNCHANGED <<transaction, receiver, billing_provider, pay_to_provider,
                   subscriber, payer, claims, addressing, output, fixed, pc>>

HandleSBR(seg) ==
    /\ Consume(seg) /\ seg.seg_id = SBR
    /\ subscriber' =
         Update(subscriber,
                [relationship |-> IF clean_value(el(seg.elements, 2)) # <<>>
                                  THEN clean_value(el(seg.elements, 2))
                                  ELSE Str("self"),
                 groupNumber  |-> clean_value(el(seg.elements, 3)),
                 planType     |-> clean_value(el(seg.elements, 5))])
    /\ UNCHANGED <<transaction, submitter, receiver, billing_provider,
                   pay_to_provider, payer, claims, addressing, output, fixed, pc>>

HandleDMG(seg) ==
    /\ Consume(seg) /\ seg.seg_id = DMG
    /\ subscriber' =
         IF current_entity = "subscriber"
         THEN Update(subscriber,
                     [dob |-> parse_date(clean_value(el(seg.elements, 2))),
                      sex |-> clean_value(el(seg.elements, 3))])
         ELSE subscriber
    /\ UNCHANGED <<transaction, submitter, receiver, billing_provider,
                   pay_to_provider, payer, claims, addressing, output, fixed, pc>>

\* HandleCLM without the save of the claim that is open
HandleCLM_DropsOpenClaim(seg) ==
    /\ Consume(seg) /\ seg.seg_id = CLM
    /\ claims_data' = claims_data
    /\ current_claim' = <<NewClaim(seg.elements)>>
    /\ UNCHANGED <<parties, addressing, output, fixed, pc>>

HandleCLM(seg) ==
    /\ Consume(seg) /\ seg.seg_id = CLM
    /\ claims_data' = IF ClaimOpen THEN Append(claims_data, TheClaim) ELSE claims_data
    /\ current_claim' = <<NewClaim(seg.elements)>>
    /\ UNCHANGED <<parties, addressing, output, fixed, pc>>

\* CodesFrom keeping the codes that are empty
RECURSIVE CodesFrom_KeepsEmpty(_, _)
CodesFrom_KeepsEmpty(elements, i) ==
    IF i >= Len(elements) THEN <<>>
    ELSE (IF el(elements, i) # <<>>
          THEN <<clean_code(el(elements, i))>> ELSE <<>>)
             \o CodesFrom_KeepsEmpty(elements, i + 1)

\* the cleaned codes of the non-empty fields from position i (0-based) on
RECURSIVE CodesFrom(_, _)
CodesFrom(elements, i) ==
    IF i >= Len(elements) THEN <<>>
    ELSE (IF el(elements, i) # <<>> /\ clean_code(el(elements, i)) # <<>>
          THEN <<clean_code(el(elements, i))>> ELSE <<>>)
             \o CodesFrom(elements, i + 1)

HandleHI(seg) ==
    LET first == el(seg.elements, 1)
        diag  == TheClaim.diagnosis
    IN
    /\ Consume(seg) /\ seg.seg_id = HI /\ ClaimOpen
    /\ current_claim' =
         <<Put(TheClaim, "diagnosis",
               [primary   |-> IF first # <<>> /\ clean_code(first) # <<>>
                              THEN clean_code(first) ELSE diag.primary,
                secondary |-> diag.secondary \o CodesFrom(seg.elements, 2)])>>
    /\ UNCHANGED <<parties, claims_data, addressing, output, fixed, pc>>

\* SetOnLastLine writing to the first line
SetOnLastLine_First(claim, k, v) ==
    Put(claim, "serviceLines",
        [claim.serviceLines EXCEPT ![1] = Put(@, k, v)])

\* the last service line of the claim gets key k set to v
SetOnLastLine(claim, k, v) ==
    Put(claim, "serviceLines",
        [claim.serviceLines EXCEPT ![Len(claim.serviceLines)] = Put(@, k, v)])

HandleDTP(seg) ==
    LET qualifier  == clean_value(el(seg.elements, 1))
        date_value == parse_date(clean_value(el(seg.elements, 3)))
    IN
    /\ Consume(seg) /\ seg.seg_id = DTP
    /\ current_claim' =
         IF qualifier = Str("472") /\ ClaimOpen /\ TheClaim.serviceLines # <<>>
         THEN <<SetOnLastLine(TheClaim, "serviceDate", date_value)>>
         ELSE IF qualifier \in {Str("431"), Str("454")} /\ ClaimOpen
         THEN <<Put(TheClaim, "onsetDate", date_value)>>
         ELSE current_claim
    /\ UNCHANGED <<parties, claims_data, addressing, output, fixed, pc>>

HandleREF(seg) ==
    /\ Consume(seg) /\ seg.seg_id = REF /\ ClaimOpen
    /\ current_claim' =
         IF clean_value(el(seg.elements, 1)) = Str("D9")
         THEN <<Put(TheClaim, "clearinghouseClaimNumber",
                    clean_value(el(seg.elements, 2)))>>
         ELSE current_claim
    /\ UNCHANGED <<parties, claims_data, addressing, output, fixed, pc>>

HandleLX(seg) ==
    /\ Consume(seg) /\ seg.seg_id = LX /\ ClaimOpen
    /\ current_claim' =
         <<Put(TheClaim, "serviceLines",
               Append(TheClaim.serviceLines, NewServiceLine(seg.elements)))>>
    /\ UNCHANGED <<parties, claims_data, addressing, output, fixed, pc>>

\* the procedure code, split at its colon when it has one
WithProcedure(svc, proc) ==
    IF IndexOf(proc, ":") # 0
    THEN Update(svc, [codeQualifier |-> Split(proc, ":")[1],
                      procedureCode |-> Split(proc, ":")[2]])
    ELSE Put(svc, "procedureCode", proc)
WithCharges(svc, elements) ==
    Update(svc, [charge        |-> safe_float(el(elements, 2)),
                 unitQualifier |-> clean_value(el(elements, 3)),
                 units         |-> safe_float(el(elements, 4))])
WithPlace(svc, pos) == IF pos # <<>> THEN Put(svc, "placeOfService", pos) ELSE svc
WithPointer(svc, diag) ==
    IF diag # <<>> THEN Put(svc, "diagnosisPointer", safe_int(diag)) ELSE svc

\* the service line an SV1 segment leaves behind
ServiceLineAfterSV1(svc, elements) ==
    WithPointer(
        WithPlace(
            WithCharges(WithProcedure(svc, clean_value(el(elements, 1))), elements),
            clean_value(el(elements, 5))),
        el(elements, 7))

\* BackFillPlace overwriting the place the claim has
BackFillPlace_Always(claim, pos) ==
    IF pos # <<>> THEN Put(claim, "placeOfService", pos) ELSE claim

\* the claim's own place of service is filled in once
BackFillPlace(claim, pos) ==
    IF pos # <<>> /\ claim.placeOfService = <<>>
    THEN Put(claim, "placeOfService", pos) ELSE claim

\* the last service line of the claim is replaced
WithLastLine(claim, svc) ==
    Put(claim, "serviceLines",
        [claim.serviceLines EXCEPT ![Len(claim.serviceLines)] = svc])

HandleSV1(seg) ==
    /\ Consume(seg) /\ seg.seg_id = SV1 /\ ClaimOpen /\ TheClaim.serviceLines # <<>>
    /\ current_claim' =
         <<BackFillPlace(
               WithLastLine(TheClaim,
                            ServiceLineAfterSV1(Last(TheClaim.serviceLines), seg.elements)),
               clean_value(el(seg.elements, 5)))>>
    /\ UNCHANGED <<parties, claims_data, addressing, output, fixed, pc>>

\* Ignored forgetting the current entity
Ignored_ResetsEntity(seg) ==
    /\ Consume(seg)
    /\ \/ seg.seg_id \notin {ISA, ST, BHT, NM1, N3, N4, PER, SBR, DMG, CLM,
                             HI, DTP, REF, LX, SV1}
       \/ seg.seg_id \in {HI, REF, LX} /\ ~ClaimOpen
       \/ seg.seg_id = SV1
            /\ (IF ClaimOpen THEN TheClaim.serviceLines = <<>> ELSE TRUE)
    /\ current_entity' = "None"
    /\ UNCHANGED <<parties, claims, temp_addresses, heap, output, fixed, pc>>

\* no branch of the loop takes the segment: an identifier without a branch,
\* or HI, REF, LX, SV1 when the branch's condition on current_claim fails
Ignored(seg) ==
    /\ Consume(seg)
    /\ \/ seg.seg_id \notin {ISA, ST, BHT, NM1, N3, N4, PER, SBR, DMG, CLM,
                             HI, DTP, REF, LX, SV1}
       \/ seg.seg_id \in {HI, REF, LX} /\ ~ClaimOpen
       \/ seg.seg_id = SV1
            /\ (IF ClaimOpen THEN TheClaim.serviceLines = <<>> ELSE TRUE)
    /\ UNCHANGED <<parties, claims, addressing, output, fixed, pc>>

-----------------------------------------------------------------------------
(* After the loop.                                                         *)

\* EndOfStream without the default of the pay-to provider
EndOfStream_NoDefault ==
    /\ pc = "loop"
    /\ pc' = "end"
    /\ claims_data' = IF ClaimOpen THEN Append(claims_data, TheClaim) ELSE claims_data
    /\ UNCHANGED <<segments, parties, current_claim, addressing, output, fixed>>

\* the last open claim is saved and the pay-to provider defaulted
EndOfStream ==
    /\ pc = "loop"
    /\ pc' = "end"
    /\ claims_data' = IF ClaimOpen THEN Append(claims_data, TheClaim) ELSE claims_data
    /\ pay_to_provider' =
         IF Get(pay_to_provider, "name", <<>>) = <<>>
         THEN billing_provider      \* .copy(): a new dict with the same values
         ELSE pay_to_provider
    /\ UNCHANGED <<segments, transaction, submitter, receiver, billing_provider,
                   subscriber, payer, current_claim, addressing, output, fixed>>

\* the characters in code point order, from the space on
\* (the backquote, which a string of this language cannot hold, keeps its place)
AsciiOrder ==
    Str(" !\"#$%&'()*+,-./0123456789:;<=>?@ABCDEFGHIJKLMNOPQRSTUVWXYZ[\\]^_")
        \o <<"backquote">> \o Str("abcdefghijklmnopqrstuvwxyz{|}~")
CharCode(c) ==
    CASE c = "\t" -> 9 [] c = "\n" -> 10 [] c = "\f" -> 12 [] c = "\r" -> 13
      [] OTHER -> 31 + IndexOf(AsciiOrder, c)

\* a < b for strings, as Python compares them
RECURSIVE StrLess(_, _)
StrLess(a, b) ==
    IF b = <<>> THEN FALSE
    ELSE IF a = <<>> THEN TRUE
    ELSE IF Head(a) # Head(b) THEN CharCode(Head(a)) < CharCode(Head(b))
    ELSE StrLess(Tail(a), Tail(b))

\* sorted(S) for a set of strings: the string at position i has i - 1
\* strings of the set before it
Sorted(S) ==
    [i \in 1..Cardinality(S) |->
        CHOOSE a \in S : Cardinality({b \in S : StrLess(b, a)}) = i - 1]

\* tx_names.get(trans_type, f'transaction type {trans_type}')
\* (the dash of the 835 label is written as a hyphen)
TxLabel(trans_type) ==
    CASE trans_type = Str("835") -> Str("835 Remittance Advice (payment file - not a claim)")
      [] trans_type = Str("270") -> Str("270 Eligibility Inquiry")
      [] trans_type = Str("271") -> Str("271 Eligibility Response")
      [] trans_type = Str("276") -> Str("276 Claim Status Request")
      [] trans_type = Str("277") -> Str("277 Claim Status Response")
      [] trans_type = Str("278") -> Str("278 Prior Authorization")
      [] trans_type = Str("834") -> Str("834 Benefit Enrollment")
      [] OTHER -> Str("transaction type ") \o trans_type

\* NoClaimError with the identifiers as the stream has them
NoClaimError_StreamOrder ==
    [kind |-> "error",
     error |-> "No CLM (claim) segments found in this file.",
     found_ids |-> [i \in DOMAIN segments |-> segments[i].seg_id],
     tx_label |-> TxLabel(Get(transaction, "type", Str("unknown"))),
     ele_sep |-> ele_sep,
     seg_term |-> seg_term]

\* the RuntimeError raised when no claim was found, with what its message
\* is made of
NoClaimError ==
    [kind |-> "error",
     error |-> "No CLM (claim) segments found in this file.",
     found_ids |-> Sorted({segments[i].seg_id : i \in DOMAIN segments}),
     tx_label |-> TxLabel(Get(transaction, "type", Str("unknown"))),
     ele_sep |-> ele_sep,
     seg_term |-> seg_term]

NoClaimFound ==
    /\ pc = "end" /\ claims_data = <<>>
    /\ ret' = NoClaimError
    /\ pc' = "failed"
    /\ UNCHANGED <<segments, parties, claims, addressing, results, fixed>>

\* section data held by reference to one of the document's dicts, or a
\* value of the claim
ByRef(name) == [ref |-> name]
ByVal(v) == [val |-> v]

\* PayerData without the payer of the claim
PayerData_DocumentLevel(claim_data) == ByRef("payer")

\* claim_data.get('payer', payer)
PayerData(claim_data) ==
    IF Has(claim_data, "payer") THEN ByVal(claim_data["payer"]) ELSE ByRef("payer")
\* claim_data.get('renderingProvider', {})
RenderingData(claim_data) == ByVal(Get(claim_data, "renderingProvider", EmptyDict))
\* claim_data.get('serviceFacility', billing_provider)
FacilityData(claim_data) ==
    IF Has(claim_data, "serviceFacility")
    THEN ByVal(claim_data["serviceFacility"])
    ELSE ByRef("billing_provider")

\* Sections with the billing provider section taken the way the service
\* facility section is
Sections_BillingPerClaim(claim_data) ==
    << [section |-> "transaction",      data |-> ByRef("transaction")],
       [section |-> "submitter",        data |-> ByRef("submitter")],
       [section |-> "receiver",         data |-> ByRef("receiver")],
       [section |-> "billing_Provider", data |-> FacilityData(claim_data)],
       [section |-> "Pay_To_provider",  data |-> ByRef("pay_to_provider")],
       [section |-> "subscriber",       data |-> ByRef("subscriber")],
       [section |-> "payer",            data |-> PayerData(claim_data)],
       [section |-> "claim",
        data |-> ByVal([id |-> claim_data.id,
                        totalCharge |-> claim_data.totalCharge,
                        placeOfService |-> claim_data.placeOfService,
                        serviceType |-> claim_data.serviceType,
                        indicators |-> claim_data.indicators,
                        onsetDate |-> claim_data.onsetDate,
                        clearinghouseClaimNumber |-> claim_data.clearinghouseClaimNumber])],
       [section |-> "diagnosis",        data |-> ByVal(claim_data.diagnosis)],
       [section |-> "renderingProvider", data |-> RenderingData(claim_data)],
       [section |-> "serviceFacility",  data |-> FacilityData(claim_data)],
       [section |-> "service_Lines",    data |-> ByVal(claim_data.serviceLines)] >>

\* the section array of one claim
Sections(claim_data) ==
    << [section |-> "transaction",      data |-> ByRef("transaction")],
       [section |-> "submitter",        data |-> ByRef("submitter")],
       [section |-> "receiver",         data |-> ByRef("receiver")],
       [section |-> "billing_Provider", data |-> ByRef("billing_provider")],
       [section |-> "Pay_To_provider",  data |-> ByRef("pay_to_provider")],
       [section |-> "subscriber",       data |-> ByRef("subscriber")],
       [section |-> "payer",            data |-> PayerData(claim_data)],
       [section |-> "claim",
        data |-> ByVal([id |-> claim_data.id,
                        totalCharge |-> claim_data.totalCharge,
                        placeOfService |-> claim_data.placeOfService,
                        serviceType |-> claim_data.serviceType,
                        indicators |-> claim_data.indicators,
                        onsetDate |-> claim_data.onsetDate,
                        clearinghouseClaimNumber |-> claim_data.clearinghouseClaimNumber])],
       [section |-> "diagnosis",        data |-> ByVal(claim_data.diagnosis)],
       [section |-> "renderingProvider", data |-> RenderingData(claim_data)],
       [section |-> "serviceFacility",  data |-> FacilityData(claim_data)],
       [section |-> "service_Lines",    data |-> ByVal(claim_data.serviceLines)] >>

\* results, one section array per claim, in the order of claims_data
BuildResults(cs) == [i \in DOMAIN cs |-> Sections(cs[i])]

\* Returned without the special case of one claim
Returned_AlwaysList(rs) == [kind |-> "list", value |-> rs]

\* return results[0] if len(results) == 1 else results
Returned(rs) ==
    IF Len(rs) = 1 THEN [kind |-> "sections", value |-> rs[1]]
    ELSE [kind |-> "list", value |-> rs]

Package ==
    /\ pc = "end" /\ claims_data # <<>>
    /\ results' = BuildResults(claims_data)
    /\ ret' = Returned(BuildResults(claims_data))
    /\ pc' = "done"
    /\ UNCHANGED <<segments, parties, claims, addressing, fixed>>

-----------------------------------------------------------------------------
(* The segment streams parse_x12_for_viewer is run on.  A stream is any    *)
(* sequence of at most MaxSegs segments of one family.                     *)

\* the longest stream
MaxSegs == 5

\* a segment written with "*" as element separator, tokenized
X12(s) == Seg(Split(Str(s), "*"))

\* the family whose streams show the address of a claim's service facility
\* after the next claim has begun: they need one segment more
FacilityFamily ==
    { X12("CLM*A1*100"), X12("NM1*77*2*FACILITY*****XX*777"), X12("N3*9 ELM ST"),
      X12("N4*SHELBYVILLE*IL*62565"), X12("N4*SPRINGFIELD*IL*62701") }
MaxSegsOf(fam) == IF fam = FacilityFamily THEN MaxSegs + 1 ELSE MaxSegs

Families == <<
    \* claims and their service lines
    { X12("CLM*A1*100.50***11:B:1*Y*A*Y*Y"), X12("clm*B2*75"),
      X12("LX*1"), X12("LX*2"), X12("SV1*HC:99213*50*UN*1*11**1") },
    \* the envelope of a file that is no claim file, and a claim
    { X12("ISA*00*  *00*  *ZZ*SENDER  *ZZ*RECEIVER  *230415*1430*^*00501*000000001*0*P*:"),
      X12("ST*835*0001*005010X221A1"), X12("BHT*0019*00*REF1*20230415*1430*CH"),
      X12("SE*5*0001"), X12("CLM*A1*100") },
    \* the billing provider and the pay-to provider
    { X12("NM1*85*2*CLINIC*****XX*1234567890"), X12("N3*1 MAIN ST"),
      X12("N4*SPRINGFIELD*IL*62701"), X12("NM1*87*2*PAYTO*****XX*55"),
      X12("CLM*A1*100") },
    \* the payer and the rendering provider, of the document and of a claim
    { X12("CLM*A1*100"), X12("NM1*PR*2*AETNA*****PI*60054"),
      X12("NM1*PR*2*CIGNA*****PI*62308"), X12("NM1*82*1*DOE*JANE****XX*555"),
      X12("NM1*87*2******XX*55") },
    \* the service facility and its address
    { X12("CLM*A1*100"), X12("NM1*77*2*FACILITY*****XX*777"),
      X12("NM1*85*2*CLINIC*****XX*1234567890"), X12("N3*9 ELM ST"),
      X12("N4*SHELBYVILLE*IL*62565") },
    \* the subscriber and the submitter
    { X12("NM1*IL*1*SMITH*JOHN****MI*W123"), X12("SBR*P**GRP1**CI"),
      X12("DMG*D8*19800101*M"), X12("NM1*41*2*BILLER*****46*TX1"),
      X12("PER*IC*JANE*TE*5551234*EX*12") },
    \* what a claim is told after its header
    { X12("CLM*A1*100"), X12("LX*1"), X12("HI*ABK:K0230*ABF:K0231**ABF:"),
      X12("REF*D9*12345"), X12("DTP*472*D8*20230415") },
    { X12("CLM*A1*100"), X12("LX*1"), X12("DTP*431*D8*20230101"),
      X12("NM1*40*2*RCVR*****46*R1"), X12("NM1*ZZ*1*NOBODY") },
    \* the payer and its address
    { X12("NM1*PR*2*AETNA*****PI*60054"), X12("N3*9 ELM ST"),
      X12("N4*SHELBYVILLE*IL*62565"), X12("CLM*A1*100") },
    \* the service facility of a claim and two cities for its address
    FacilityFamily,
    \* diagnosis codes over two segments, the second without a primary code
    { X12("CLM*A1*100"), X12("HI*ABK:K0230*ABF:K0231"), X12("HI**ABF:K1* *ABF:") },
    \* professional services with two places of service and with none
    { X12("CLM*A1*100"), X12("LX*1"), X12("SV1*HC:99213*50*UN*1*11"),
      X12("SV1*HC:99214*60*UN*1*22"), X12("SV1*HC:99215*70*UN*1") },
    \* segments with fields missing and with numbers and dates that do not
    \* parse
    { X12("CLM"), X12("CLM*A1*12x"), X12("LX*one"), X12("SV1*:*1e*UN*-"),
      X12("DTP*472*D8*2023") },
    { X12("CLM*A1"), X12("NM1*77"), X12("N3"), X12("N4"), X12("HI") }
>>

\* the reader has returned, with the usual delimiters
ReadReturned ==
    /\ doc = [kind |-> "none"] /\ content = <<>>
    /\ rd_pc = "done" /\ parse_start = 1 /\ ele_sep = "*" /\ seg_term = "~"

Init ==
    /\ ReadReturned
    /\ AsmIdle
    /\ HelperIdle
    /\ pc = "loop"
    /\ family \in {Families[f] : f \in DOMAIN Families}

\* the stream goes on with one more segment of the family
MoreInput == Len(segments) < MaxSegsOf(family)
Inputs == IF MoreInput THEN family ELSE {}

Next ==
    \/ \E seg \in Inputs : HandleISA(seg)
    \/ \E seg \in Inputs : HandleST(seg)
    \/ \E seg \in Inputs : HandleBHT(seg)
    \/ \E seg \in Inputs : HandleNM1(seg)
    \/ \E seg \in Inputs : HandleN3(seg)
    \/ \E seg \in Inputs : HandleN4(seg)
    \/ \E seg \in Inputs : HandlePER(seg)
    \/ \E seg \in Inputs : HandleSBR(seg)
    \/ \E seg \in Inputs : HandleDMG(seg)
    \/ \E seg \in Inputs : HandleCLM(seg)
    \/ \E seg \in Inputs : HandleHI(seg)
    \/ \E seg \in Inputs : HandleDTP(seg)
    \/ \E seg \in Inputs : HandleREF(seg)
    \/ \E seg \in Inputs : HandleLX(seg)
    \/ \E seg \in Inputs : HandleSV1(seg)
    \/ \E seg \in Inputs : Ignored(seg)
    \/ EndOfStream
    \/ NoClaimFound
    \/ Package

Spec == Init /\ [][Next]_vars

\* the stream is finite and the code after the loop runs: the loop ends,
\* and then the result is packaged or the error raised
\* (checked on the envelope, the subscriber, the claim detail and the two
\* irregular families, which between them take every branch)
LiveFamilies == {Families[f] : f \in {2, 6, 7, 13, 14}}
LiveInit == Init /\ family \in LiveFamilies
SpecLive ==
    /\ LiveInit /\ [][Next]_vars
    /\ WF_vars(EndOfStream) /\ WF_vars(NoClaimFound) /\ WF_vars(Package)

-----------------------------------------------------------------------------
(* The value helpers called on their own, each on one text.                *)

\* the longest text of the small alphabet
MaxValueLen == 3
\* what clean_value and clean_code look at: blanks, the tilde, the colon
ValueChars == {" ", "~", ":", "A", "1"}
ShortTexts == UNION {[1..n -> ValueChars] : n \in 0..MaxValueLen}

\* the length parse_date looks for, and texts one shorter, as long, one longer
DateLen == 8
DateChars == {"2", "x"}
DateTexts == UNION {[1..n -> DateChars] : n \in (DateLen - 1)..(DateLen + 1)}

Values == ShortTexts \cup DateTexts

\* neither the reader nor the assembler runs
NothingRead ==
    /\ doc = [kind |-> "none"] /\ content = <<>>
    /\ rd_pc = "idle" /\ parse_start = 0 /\ ele_sep = "" /\ seg_term = ""

ValuesInit ==
    /\ NothingRead /\ AsmIdle /\ pc = "helper" /\ family = {}
    /\ given \in Values
    /\ helped = NotCalled

\* a helper may be called: none was called before
Callable == pc = "helper" /\ helped = NotCalled
\* the helper fn returned out
Helped(fn, out) == [fn |-> fn, out |-> out]

CallCleanValue ==
    /\ Callable
    /\ helped' = Helped("clean_value", clean_value(given))
    /\ UNCHANGED <<rd_vars, asm_vars, given>>

CallCleanCode ==
    /\ Callable
    /\ helped' = Helped("clean_code", clean_code(given))
    /\ UNCHANGED <<rd_vars, asm_vars, given>>

CallParseDate ==
    /\ Callable
    /\ helped' = Helped("parse_date", parse_date(given))
    /\ UNCHANGED <<rd_vars, asm_vars, given>>

ValuesNext == CallCleanValue \/ CallCleanCode \/ CallParseDate

SpecValues == ValuesInit /\ [][ValuesNext]_vars

------------------------------------------------------------------------------
(* read_x12_segments run on short texts that follow a transaction header,  *)
(* for the split of step 3.                                                *)

\* how long the text after the header may be
MaxTextLen == 5
TextChars == {"*", "~", " ", "a", "B"}
Texts == UNION {[1..n -> TextChars] : n \in 0..MaxTextLen}

\* the header the texts follow: detection takes the ST path and finds "*"
\* and "~"
TextHeader == Str("ST*837~")

SplitInit ==
    /\ doc \in [kind : {"text"}, rest : Texts]
    /\ content = TextHeader \o doc.rest
    /\ rd_pc = "detect"
    /\ parse_start = 0 /\ ele_sep = "" /\ seg_term = ""
    /\ AsmIdle /\ pc = "read" /\ family = {}
    /\ HelperIdle

SplitNext == DetectViaSt \/ SplitStep

SpecSplit == SplitInit /\ [][SplitNext]_vars

-----------------------------------------------------------------------------
(* Properties of delimiter detection (checked under SpecRead).             *)

\* step 2 has run
DetectionDone == rd_pc # "detect"
DetectionSucceeded == rd_pc \in {"split", "done"}
DetectionFailed == rd_pc = "error" /\ ret.kind = "error"

\* the document was written with a complete ISA header (16 data elements)
\* and a segment terminator after it
HasIsaHeader ==
    /\ doc.kind = "ISA" /\ doc.mark = <<"I", "S", "A">>
    /\ doc.nelems = IsaElements /\ doc.term # <<>>

\* C5 as stated: for every document with an ISA header the detected segment
\* terminator is the character written right after the value of the header's
\* 16th element, whatever the separator and terminator characters are.
C5_Original ==
    (DetectionDone /\ HasIsaHeader)
        => (DetectionSucceeded /\ seg_term = doc.term[1])

\* C5, amended: the same, for the headers whose 16th element is exactly one
\* character long (the code takes the second character after the 16th
\* separator).
C5_TerminatorFollowsIsa16 ==
    (DetectionDone /\ HasIsaHeader /\ Len(doc.isa16) = 1)
        => (DetectionSucceeded /\ seg_term = doc.term[1])

\* a header with "|" as separator and a newline as terminator was read
C5_Witness ==
    /\ DetectionSucceeded /\ HasIsaHeader /\ Len(doc.isa16) = 1
    /\ doc.sep = "|" /\ doc.term = <<"\n">> /\ seg_term = "\n"

\* the transaction-set header marker of the specification: "ST" followed by
\* one non-alphanumeric character
StMarkerAt(text, i) ==
    /\ i + 2 <= Len(text)
    /\ SubSeq(text, i, i + 1) = <<"S", "T">>
    /\ ~IsAlnum(text[i + 2])
StMarkers(text) == {i \in DOMAIN text : StMarkerAt(text, i)}
PrecededByAlnum(text, i) == i > 1 /\ IsAlnum(text[i - 1])

\* the interchange header marker of the specification: "ISA" followed by one
\* non-alphanumeric character
IsaMarkerAt(text, i) ==
    /\ i + 3 <= Len(text)
    /\ SubSeq(text, i, i + 2) = <<"I", "S", "A">>
    /\ ~IsAlnum(text[i + 3])
NoInterchangeHeader ==
    doc.kind = "ST" /\ \A i \in DOMAIN content : ~IsaMarkerAt(content, i)

\* C6 as stated: in a document without an interchange header that contains
\* a transaction-set header marker, detection succeeds when a marker is not
\* preceded by an alphanumeric character and fails with a FormatError when
\* every marker is.
C6_StPathOutcome ==
    (DetectionDone /\ NoInterchangeHeader /\ StMarkers(content) # {})
        => IF \E i \in StMarkers(content) : ~PrecededByAlnum(content, i)
           THEN DetectionSucceeded
           ELSE DetectionFailed

\* C7 as stated: whenever detection succeeds, the element separator and the
\* segment terminator are single non-alphanumeric characters, different
\* from each other.
C7_DelimitersWellFormed ==
    DetectionSucceeded
        => /\ Len(ele_sep) = 1 /\ Len(seg_term) = 1
           /\ ~IsAlnum(ele_sep) /\ ~IsAlnum(seg_term)
           /\ ele_sep # seg_term

\* the pieces of the text from the header marker, split at every separator
IsaPieces ==
    LET at == IsaSearch(content)
    IN  Split(Tail_from(content, at), content[at + 3])

-----------------------------------------------------------------------------
(* Properties of the assembly of claims (checked under Spec).              *)

\* the loop is over
Finished == pc \in {"end", "failed", "done"}

\* the positions in the stream of the segments that pass Test
Where(Test(_)) == SelectSeq([i \in 1..Len(segments) |-> i], Test)

\* the positions of the claim headers, in stream order
IsClmAt(i) == segments[i].seg_id = CLM
ClaimHeaders == Where(IsClmAt)

\* the segments processed while the k-th claim was open: those after its
\* header and before the next header or the end of the stream
WindowOf(k) ==
    SubSeq(segments, ClaimHeaders[k] + 1,
           IF k < Len(ClaimHeaders) THEN ClaimHeaders[k + 1] - 1 ELSE Len(segments))
IsLX(seg) == seg.seg_id = LX
LinesOf(k) == SelectSeq(WindowOf(k), IsLX)

\* the name segments of the window of the k-th claim that carry a role code
NamedIn(k, code) ==
    SelectSeq(WindowOf(k),
              LAMBDA seg : seg.seg_id = NM1 /\ clean_value(el(seg.elements, 1)) = code)

\* C1: for a stream with N >= 1 CLM segments exactly N claims are committed,
\* in the order of their CLM segments, and the service lines of each claim
\* are exactly the lines made by the LX segments between its CLM and the next
\* CLM (or the end of the stream), in stream order.
C1_ClaimsOwnTheirLines ==
    Finished /\ ClaimHeaders # <<>> =>
        /\ Len(claims_data) = Len(ClaimHeaders)
        /\ \A k \in DOMAIN claims_data :
             /\ claims_data[k].id = clean_value(el(segments[ClaimHeaders[k]].elements, 1))
             /\ Len(claims_data[k].serviceLines) = Len(LinesOf(k))
             /\ \A j \in DOMAIN claims_data[k].serviceLines :
                  claims_data[k].serviceLines[j].lineNumber
                      = safe_int(el(LinesOf(k)[j].elements, 1))

\* two claims were committed, each with a line of its own number
C1_Witness ==
    /\ pc = "done" /\ Len(ClaimHeaders) = 2 /\ Len(claims_data) = 2
    /\ claims_data[1].id # claims_data[2].id
    /\ claims_data[1].serviceLines # <<>> /\ claims_data[2].serviceLines # <<>>
    /\ claims_data[1].serviceLines[1].lineNumber
           # claims_data[2].serviceLines[1].lineNumber

\* the identifiers of the stream
SeenIds == {segments[i].seg_id : i \in DOMAIN segments}

\* C2: parsing fails with the no-claim error if and only if the stream holds
\* no CLM segment, and the error then lists every distinct segment identifier
\* of the stream exactly once, in ascending order.
C2_NoClaimFoundIffNoClm ==
    /\ pc = "failed" =>
         /\ ClaimHeaders = <<>>
         /\ ret.kind = "error"
         /\ {ret.found_ids[i] : i \in DOMAIN ret.found_ids} = SeenIds
         /\ \A i, j \in DOMAIN ret.found_ids :
              i < j => StrLess(ret.found_ids[i], ret.found_ids[j])
    /\ pc = "done" => ClaimHeaders # <<>>
    /\ pc = "end" => (claims_data = <<>> <=> ClaimHeaders = <<>>)

\* the error was raised for a stream that repeats an identifier and has
\* its identifiers out of order
C2_Witness ==
    /\ pc = "failed" /\ Len(ret.found_ids) >= 3
    /\ Len(segments) > Len(ret.found_ids)
    /\ \E i \in 1..(Len(segments) - 1) :
         StrLess(segments[i + 1].seg_id, segments[i].seg_id)

\* a dict of the document, by the name the sections refer to it
DocDict(name) ==
    CASE name = "transaction"      -> transaction
      [] name = "submitter"        -> submitter
      [] name = "receiver"         -> receiver
      [] name = "billing_provider" -> billing_provider
      [] name = "pay_to_provider"  -> pay_to_provider
      [] name = "subscriber"       -> subscriber
      [] name = "payer"            -> payer

\* the dict a section holds
DataOf(sec) == IF Has(sec.data, "ref") THEN DocDict(sec.data.ref) ELSE sec.data.val

\* a party with its address written out, as heap h has it
Deep(party, h) ==
    IF Has(party, "address") THEN Put(party, "address", h[party["address"]]) ELSE party

\* a name segment with the pay-to role
IsPayToAt(i) ==
    segments[i].seg_id = NM1 /\ clean_value(el(segments[i].elements, 1)) = Str("87")
PayToNames == Where(IsPayToAt)

\* C3: when the stream has a CLM and no NM1 with role 87, the pay-to section
\* of every claim returned equals the billing provider section, nested
\* address included.
C3_PayToEqualsBilling ==
    pc = "done" /\ PayToNames = <<>> =>
        \A i \in DOMAIN results :
            /\ results[i][4].section = "billing_Provider"
            /\ results[i][5].section = "Pay_To_provider"
            /\ Deep(DataOf(results[i][5]), heap) = Deep(DataOf(results[i][4]), heap)

\* claims were returned for a stream that names a billing provider with a
\* full address and no pay-to provider
C3_Witness ==
    /\ pc = "done" /\ PayToNames = <<>>
    /\ Get(billing_provider, "name", <<>>) # <<>>
    /\ Has(billing_provider, "address")
    /\ Has(heap[billing_provider["address"]], "street")
    /\ Has(heap[billing_provider["address"]], "city")

\* the pay-to provider was defaulted: no NM1 with role 87 gave it a name
\* that is not empty (the last such segment decides)
PayToDefaulted ==
    \/ PayToNames = <<>>
    \/ clean_value(el(segments[Last(PayToNames)].elements, 3)) = <<>>

\* the heap after key k of the address of a party was set to v
AddressSet(party, k, v) ==
    IF Has(party, "address") THEN HeapUpdate(heap, party["address"], k :> v) ELSE heap

\* the keys and the value such a change is tried with
AddressKeys == {"street", "city"}
Changed == Str("changed")

\* C4: a pay-to provider defaulted from the billing provider is a copy by
\* value: changing the nested address of the billing provider after the
\* end of the stream leaves the pay-to provider as it was, and the other
\* way round.  (A change of a top-level key of one dict cannot reach the
\* other: copy() made a dict of its own.)
C4_CapturedByValue ==
    pc \in {"end", "done"} /\ PayToDefaulted =>
        \A k \in AddressKeys :
            /\ Deep(pay_to_provider, AddressSet(billing_provider, k, Changed))
                   = Deep(pay_to_provider, heap)
            /\ Deep(billing_provider, AddressSet(pay_to_provider, k, Changed))
                   = Deep(billing_provider, heap)

\* C9: when one claim was committed its section list is returned as it is;
\* when K >= 2 were committed a list of K section lists is returned, the
\* i-th that of the i-th claim.
C9_ReturnShape ==
    pc = "done" =>
        /\ Len(claims_data) = 1 =>
             ret.kind = "sections" /\ ret.value = Sections(claims_data[1])
        /\ Len(claims_data) >= 2 =>
             /\ ret.kind = "list"
             /\ Len(ret.value) = Len(claims_data)
             /\ \A i \in DOMAIN claims_data :
                  /\ ret.value[i] = Sections(claims_data[i])
                  /\ ret.value[i][8].section = "claim"
                  /\ ret.value[i][8].data.val.id = claims_data[i].id

\* a list of the section lists of two claims that differ was returned
C9_Witness ==
    /\ pc = "done" /\ Len(claims_data) = 2 /\ ret.kind = "list"
    /\ claims_data[1].id # claims_data[2].id
    /\ ret.value[1] # ret.value[2]

\* the records the NM1 branches make of the last segment of a role
PayerEntry(seg) ==
    [name |-> clean_value(el(seg.elements, 3)), payerId |-> clean_value(el(seg.elements, 9))]
RenderingEntry(seg) ==
    [firstName |-> clean_value(el(seg.elements, 4)),
     lastName  |-> clean_value(el(seg.elements, 3)),
     npi       |-> clean_value(el(seg.elements, 9))]

\* C10: of every committed claim, the payer section is the payer named
\* while the claim was open, else the payer of the document; the rendering
\* provider section is the one named while the claim was open, else an empty
\* record; the service facility section is the one named while the claim was
\* open, else the billing provider.
C10_SectionFallbacks ==
    pc = "done" =>
        \A k \in DOMAIN results :
            /\ results[k][7].section = "payer"
            /\ results[k][7].data =
                 IF NamedIn(k, Str("PR")) # <<>>
                 THEN ByVal(PayerEntry(Last(NamedIn(k, Str("PR")))))
                 ELSE ByRef("payer")
            /\ results[k][10].section = "renderingProvider"
            /\ results[k][10].data =
                 IF NamedIn(k, Str("82")) # <<>>
                 THEN ByVal(RenderingEntry(Last(NamedIn(k, Str("82")))))
                 ELSE ByVal(EmptyDict)
            /\ results[k][11].section = "serviceFacility"
            /\ IF NamedIn(k, Str("77")) # <<>>
               THEN /\ Has(results[k][11].data, "val")
                    /\ results[k][11].data.val.name
                           = clean_value(el(Last(NamedIn(k, Str("77"))).elements, 3))
                    /\ results[k][11].data.val.taxId
                           = clean_value(el(Last(NamedIn(k, Str("77"))).elements, 9))
               ELSE results[k][11].data = ByRef("billing_provider")

\* two claims were returned, the first with the payer of the document and
\* the second with a payer and a rendering provider of its own
C10_Witness ==
    /\ pc = "done" /\ Len(results) = 2
    /\ Get(payer, "name", <<>>) # <<>>
    /\ NamedIn(1, Str("PR")) = <<>> /\ NamedIn(2, Str("PR")) # <<>>
    /\ NamedIn(2, Str("82")) # <<>>
    /\ DataOf(results[1][7]) # DataOf(results[2][7])

-----------------------------------------------------------------------------
(* Properties of the value helpers (checked under SpecValues).             *)

\* the positions of character c in text x
PositionsOf(x, c) == {i \in DOMAIN x : x[i] = c}

\* x has no tilde and neither starts nor ends with whitespace
AlreadyClean(x) ==
    /\ PositionsOf(x, "~") = {}
    /\ x # <<>> => x[1] \notin Whitespace /\ x[Len(x)] \notin Whitespace

\* C11: clean_value is idempotent, clean(clean(x)) = clean(x) for every text
\* x, and it returns unchanged a text that has no tilde and no leading or
\* trailing whitespace.
C11_CleanValueIdempotent ==
    helped.fn = "clean_value" =>
        /\ clean_value(helped.out) = helped.out
        /\ AlreadyClean(given) => helped.out = given

\* clean_value was called on a text that starts with whitespace and holds a
\* tilde, and something is left of it
C11_Witness ==
    /\ helped.fn = "clean_value"
    /\ given # <<>> /\ given[1] \in Whitespace /\ PositionsOf(given, "~") # {}
    /\ helped.out # <<>> /\ helped.out # given

\* the part of x after its last colon
AfterLastColon(x) ==
    LET last == CHOOSE i \in PositionsOf(x, ":") : \A j \in PositionsOf(x, ":") : j <= i
    IN  SubSeq(x, last + 1, Len(x))

\* C12: for a value with a colon clean_code returns the part of the cleaned
\* value after its last colon, for a value without one the cleaned value.
C12_CleanCodeAfterLastColon ==
    helped.fn = "clean_code" =>
        IF PositionsOf(given, ":") # {}
        THEN helped.out = AfterLastColon(clean_value(given))
        ELSE helped.out = clean_value(given)

\* clean_code was called on a value with two colons and a code after them
C12_Witness ==
    /\ helped.fn = "clean_code"
    /\ Cardinality(PositionsOf(given, ":")) = 2
    /\ helped.out # <<>>

\* C13: parse_date maps a text c1..c8 of 8 characters to c1c2c3c4-c5c6-c7c8
\* and returns a text of any other length, the empty one too, unchanged.
C13_ParseDateByLength ==
    helped.fn = "parse_date" =>
        IF Len(given) = 8
        THEN /\ Len(helped.out) = 10
             /\ SubSeq(helped.out, 1, 4) = SubSeq(given, 1, 4)
             /\ helped.out[5] = "-"
             /\ SubSeq(helped.out, 6, 7) = SubSeq(given, 5, 6)
             /\ helped.out[8] = "-"
             /\ SubSeq(helped.out, 9, 10) = SubSeq(given, 7, 8)
        ELSE helped.out = given

\* parse_date was called on 8 characters that are not all digits
C13_Witness ==
    /\ helped.fn = "parse_date" /\ Len(given) = 8
    /\ PositionsOf(given, "x") # {} /\ PositionsOf(given, "2") # {}
    /\ helped.out[5] = "-"

-----------------------------------------------------------------------------
(* Properties of the addresses (checked under Spec).                       *)

\* the entity the first i segments of the stream leave as current
RECURSIVE EntityAfter(_)
EntityAfter(i) ==
    IF i = 0 THEN "None"
    ELSE IF /\ segments[i].seg_id = NM1
            /\ EntityOf(clean_value(el(segments[i].elements, 1))) # ""
         THEN EntityOf(clean_value(el(segments[i].elements, 1)))
         ELSE EntityAfter(i - 1)

\* the positions of the address segments (N3, N4) processed for entity e
AddressSegsOf(e) ==
    Where(LAMBDA i : segments[i].seg_id \in {N3, N4} /\ EntityAfter(i) = e)

\* the address dicts the parties and the claims hold, by reference
HeldBy(d) == IF Has(d, "address") THEN {d["address"]} ELSE {}
FacilityOf(claim) == Get(claim, "serviceFacility", EmptyDict)
AllClaims == claims_data \o current_claim
CommittedAddresses ==
    HeldBy(billing_provider) \cup HeldBy(pay_to_provider) \cup HeldBy(subscriber)
        \cup UNION {HeldBy(FacilityOf(AllClaims[k])) : k \in DOMAIN AllClaims}

\* the address dicts that are buffers
Buffers == {temp_addresses[e] : e \in DOMAIN temp_addresses}

\* C14: an entity has an address buffer only between an N3 and the next N4
\* processed for it (once that N4 has committed the address no buffer is
\* left), and an address held by a party or a claim is a record of its own,
\* not a buffer a later update can reach.
C14_BufferTransient ==
    /\ \A e \in DOMAIN temp_addresses :
         /\ AddressSegsOf(e) # <<>>
         /\ segments[Last(AddressSegsOf(e))].seg_id = N3
    /\ CommittedAddresses \cap Buffers = {}

Roles ==
    {"submitter", "receiver", "billing_provider", "pay_to_provider", "subscriber",
     "payer", "rendering_provider", "service_facility"}

\* the record of an entity: a party of the document or, for the payer, the
\* rendering provider and the service facility, the entity of the open claim
EntityRecord(e) ==
    CASE e = "submitter"        -> submitter
      [] e = "receiver"         -> receiver
      [] e = "billing_provider" -> billing_provider
      [] e = "pay_to_provider"  -> pay_to_provider
      [] e = "subscriber"       -> subscriber
      [] e = "payer" ->
           IF ClaimOpen THEN Get(TheClaim, "payer", payer) ELSE payer
      [] e = "rendering_provider" ->
           IF ClaimOpen THEN Get(TheClaim, "renderingProvider", EmptyDict) ELSE EmptyDict
      [] e = "service_facility" ->
           IF ClaimOpen THEN Get(TheClaim, "serviceFacility", EmptyDict) ELSE EmptyDict

\* the address field of a record, written out; empty when it has none
AddressIn(d, h) == IF Has(d, "address") THEN h[d["address"]] ELSE EmptyDict

\* the address an N3 and an N4 segment spell
Spelled(n3, n4) ==
    [street |-> clean_value(el(n3.elements, 1)),
     city   |-> clean_value(el(n4.elements, 1)),
     state  |-> clean_value(el(n4.elements, 2)),
     zip    |-> clean_value(el(n4.elements, 3))]

\* the step takes one more segment, with identifier id
Takes(id) == segments' # segments /\ Last(segments').seg_id = id

\* the role of the name segment at position i of the stream
RoleAt(i) == EntityOf(clean_value(el(segments[i].elements, 1)))

\* the stream ends with a name segment of a recognized role and an N3
NamedThenStreet ==
    IF Len(segments) >= 2
    THEN IF segments[Len(segments)].seg_id = N3 /\ segments[Len(segments) - 1].seg_id = NM1
         THEN RoleAt(Len(segments) - 1) # ""
         ELSE FALSE
    ELSE FALSE

\* C15: for each of the eight roles, after a name segment of the role, an
\* N3 and an N4 in that order the address field of the entity's record holds
\* the street, city, state and zip of the two segments; an N4 that finds no
\* buffer for the current entity changes nothing.
C15_AddressCommitted ==
    [][IF Takes(N4)
       THEN /\ IF Has(temp_addresses, current_entity) THEN TRUE
               ELSE UNCHANGED <<parties, claims, addressing>>
            /\ IF NamedThenStreet
               THEN \A e \in Roles : \A a \in {Spelled(segments[Len(segments)], Last(segments'))} :
                        e = RoleAt(Len(segments) - 1) =>
                            AddressIn(EntityRecord(e), heap)' = a
               ELSE TRUE
       ELSE TRUE
      ]_vars


\* a claim with the address of its service facility written out, as heap h
\* has it
DeepClaim(claim, h) ==
    IF Has(claim, "serviceFacility")
    THEN Put(claim, "serviceFacility", Deep(claim["serviceFacility"], h))
    ELSE claim

\* C16: once a claim is committed no later step changes any part of it,
\* the address of its service facility included.
C16_CommittedClaimsFrozen ==
    [][\A k \in DOMAIN claims_data :
         /\ k \in DOMAIN claims_data'
         /\ DeepClaim(claims_data[k], heap)' = DeepClaim(claims_data[k], heap)
      ]_vars


\* the role codes a name segment is recognized by
RoleCodes ==
    {Str("41"), Str("40"), Str("85"), Str("87"), Str("IL"), Str("PR"), Str("82"), Str("77")}

\* the role code of a name segment
CodeOf(seg) == clean_value(el(seg.elements, 1))

\* C17: a name segment whose role code is none of the eight recognized codes
\* leaves the current entity, every party, every address buffer, the open
\* claim and the committed claims as they were.
C17_UnknownRoleIgnored ==
    [][IF Takes(NM1)
       THEN \A seg \in {Last(segments')} :
                CodeOf(seg) \notin RoleCodes => UNCHANGED <<parties, claims, addressing>>
       ELSE TRUE
      ]_vars

\* a name segment of an unknown role has been processed with a claim open
\* and an entity current
C17_Witness ==
    /\ pc = "loop" /\ segments # <<>>
    /\ Last(segments).seg_id = NM1 /\ CodeOf(Last(segments)) \notin RoleCodes
    /\ current_entity = "receiver" /\ ClaimOpen


\* the open claim has no service line
NoLines == IF ClaimOpen THEN TheClaim.serviceLines = <<>> ELSE FALSE

\* C18: while no claim is open, HI, DTP, REF, LX and SV1 segments leave the
\* whole assembler state unchanged; so does an SV1 segment on an open claim
\* that has no service line.
C18_NothingWithoutClaim ==
    [][IF segments' # segments
       THEN \A seg \in {Last(segments')} :
              /\ seg.seg_id \in {HI, DTP, REF, LX, SV1} /\ ~ClaimOpen
                    => UNCHANGED <<parties, claims, addressing, output>>
              /\ seg.seg_id = SV1 /\ NoLines
                    => UNCHANGED <<parties, claims, addressing, output>>
       ELSE TRUE
      ]_vars

\* a service-line number before the first claim header and a professional
\* service right after the header have been processed: the claim is as its
\* header made it
C18_Witness ==
    /\ pc = "loop" /\ Len(segments) = 3
    /\ segments[1].seg_id = LX /\ segments[2].seg_id = CLM /\ segments[3].seg_id = SV1
    /\ NoLines /\ current_claim = <<NewClaim(segments[2].elements)>>


\* dict d2 is dict d1 with key k set to v and nothing else changed
SetsOnly(d1, d2, k, v) ==
    /\ DOMAIN d2 = DOMAIN d1 \cup {k}
    /\ d2[k] = v
    /\ \A j \in DOMAIN d1 \ {k} : d2[j] = d1[j]

\* lines l2 are lines l1 with the service date of the last one set to v
DatesLastLine(l1, l2, v) ==
    /\ Len(l2) = Len(l1)
    /\ \A i \in 1..(Len(l1) - 1) : l2[i] = l1[i]
    /\ SetsOnly(l1[Len(l1)], l2[Len(l1)], "serviceDate", v)

\* claim c2 is claim c1 with the service date of its last line set to v
DatesLastLineOf(c1, c2, v) ==
    /\ DOMAIN c2 = DOMAIN c1
    /\ \A j \in DOMAIN c1 \ {"serviceLines"} : c2[j] = c1[j]
    /\ DatesLastLine(c1.serviceLines, c2.serviceLines, v)

\* the qualifier and the date of a date/time segment
QualifierOf(seg) == clean_value(el(seg.elements, 1))
DateOf(seg) == parse_date(clean_value(el(seg.elements, 3)))

\* what a date/time segment does to the open claim
DtpEffect(seg) ==
    IF QualifierOf(seg) = Str("472")
    THEN IF ClaimOpen /\ ~NoLines
         THEN /\ Len(current_claim') = 1
              /\ DatesLastLineOf(TheClaim, current_claim'[1], DateOf(seg))
         ELSE UNCHANGED current_claim
    ELSE IF QualifierOf(seg) \in {Str("431"), Str("454")} /\ ClaimOpen
         THEN /\ Len(current_claim') = 1
              /\ SetsOnly(TheClaim, current_claim'[1], "onsetDate", DateOf(seg))
         ELSE TRUE

\* C19: a DTP segment with qualifier 472 sets the service date of the last
\* service line of the open claim and nothing else, and does nothing when
\* no claim is open or the open claim has no line; with qualifier 431 or 454
\* it sets the onset date of the open claim only. No committed claim, party
\* or address is touched.
C19_DateGoesToLastLine ==
    [][IF Takes(DTP)
       THEN /\ UNCHANGED <<parties, claims_data, addressing, output>>
            /\ \A seg \in {Last(segments')} : DtpEffect(seg)
       ELSE TRUE
      ]_vars

\* a service date has been set on the second of two lines of the open claim
C19_Witness ==
    /\ pc = "loop" /\ segments # <<>>
    /\ Last(segments).seg_id = DTP /\ QualifierOf(Last(segments)) = Str("472")
    /\ ClaimOpen
    /\ IF ClaimOpen
       THEN /\ Len(TheClaim.serviceLines) = 2
            /\ TheClaim.serviceLines[1].serviceDate = Str("")
            /\ TheClaim.serviceLines[2].serviceDate = Str("2023-04-15")
       ELSE FALSE


------------------------------------------------------------------------------
(* Properties of the diagnosis codes (checked under Spec).                  *)

NonEmpty(x) == x # <<>>

\* the fields of a segment after field 1, and the codes of a list of fields
LaterFields(seg) == SubSeq(seg.elements, 3, Len(seg.elements))
Codes(fields) == [i \in DOMAIN fields |-> clean_code(fields[i])]

\* the diagnosis of the open claim becomes diag and nothing else changes
DiagnosisBecomes(diag) ==
    /\ Len(current_claim') = 1
    /\ SetsOnly(TheClaim, current_claim'[1], "diagnosis", diag)
    /\ UNCHANGED <<parties, claims_data, addressing, output>>

\* the primary code after a segment whose field 1 has code c
PrimaryAfter(c) == IF c # <<>> THEN c ELSE TheClaim.diagnosis.primary

\* C20 (as amended): an HI segment processed on an open claim makes the code
\* of field 1, when that code is not empty, the primary diagnosis code, and
\* adds to the secondary list, in field order, the code of every later field
\* whose code is not empty; nothing else is added and nothing else changes.
C20_DiagnosisCodes ==
    [][IF Takes(HI) /\ ClaimOpen
       THEN \A seg \in {Last(segments')} :
              DiagnosisBecomes(
                [primary   |-> PrimaryAfter(clean_code(el(seg.elements, 1))),
                 secondary |-> TheClaim.diagnosis.secondary
                                 \o SelectSeq(Codes(LaterFields(seg)), NonEmpty)])
       ELSE TRUE
      ]_vars

\* C20 (as stated): field 1 with its qualifier stripped becomes the primary
\* code, and every non-empty field after field 1 is added, qualifier
\* stripped and in field order, to the secondary list.
C20_Original ==
    [][IF Takes(HI) /\ ClaimOpen
       THEN \A seg \in {Last(segments')} :
              DiagnosisBecomes(
                [primary   |-> clean_code(el(seg.elements, 1)),
                 secondary |-> TheClaim.diagnosis.secondary
                                 \o Codes(SelectSeq(LaterFields(seg), NonEmpty))])
       ELSE TRUE
      ]_vars

\* after a segment with two codes, a segment without a primary code, with a
\* blank field and with a field that is a qualifier only has been processed:
\* the primary code is kept and one secondary code was added
C20_Witness ==
    /\ pc = "loop" /\ segments # <<>>
    /\ Last(segments).seg_id = HI
    /\ el(Last(segments).elements, 1) = <<>>
    /\ Len(SelectSeq(LaterFields(Last(segments)), NonEmpty)) = 3
    /\ ClaimOpen
    /\ IF ClaimOpen
       THEN TheClaim.diagnosis =
              [primary |-> Str("K0230"), secondary |-> <<Str("K0231"), Str("K1")>>]
       ELSE FALSE


------------------------------------------------------------------------------
(* Properties of the place of service (checked under Spec).                 *)

\* the place of service a professional-service segment carries
PlaceOf(seg) == clean_value(el(seg.elements, 5))

\* the last position of the window of the k-th claim
WindowEnd(k) ==
    IF k < Len(ClaimHeaders) THEN ClaimHeaders[k + 1] - 1 ELSE Len(segments)

\* a service line was appended to the k-th claim before position i
HasLineBefore(k, i) ==
    \E j \in (ClaimHeaders[k] + 1)..(i - 1) : segments[j].seg_id = LX

\* the positions of the SV1 segments of the k-th claim that carry a place of
\* service: all of them, or those that found a service line only
PlacingAt(k, withLine) ==
    {i \in (ClaimHeaders[k] + 1)..WindowEnd(k) :
        /\ segments[i].seg_id = SV1
        /\ PlaceOf(segments[i]) # <<>>
        /\ withLine => HasLineBefore(k, i)}

Least(S) == CHOOSE x \in S : \A y \in S : x <= y

\* the place of service of the first of these segments, empty without one
FirstPlace(k, withLine) ==
    IF PlacingAt(k, withLine) = {} THEN <<>>
    ELSE PlaceOf(segments[Least(PlacingAt(k, withLine))])

\* C21 (as amended): a claim's place of service is that of the first SV1
\* segment of the claim that found a service line and carries a place of
\* service, and is empty when the claim has no such segment; a later SV1
\* segment never changes it.
C21_PlaceOfFirstService ==
    pc = "loop" =>
        /\ Len(AllClaims) = Len(ClaimHeaders)
        /\ \A k \in DOMAIN AllClaims :
             AllClaims[k].placeOfService = FirstPlace(k, TRUE)

\* C21 (as stated): a claim's place of service is that of the first SV1
\* segment of the claim that carries a place of service.
C21_Original ==
    pc = "loop" =>
        /\ Len(AllClaims) = Len(ClaimHeaders)
        /\ \A k \in DOMAIN AllClaims :
             AllClaims[k].placeOfService = FirstPlace(k, FALSE)

\* a second SV1 segment with another place of service has been processed on
\* the open claim, which keeps the place of the first
C21_Witness ==
    /\ pc = "loop" /\ ClaimOpen /\ segments # <<>>
    /\ Last(segments).seg_id = SV1
    /\ PlaceOf(Last(segments)) = Str("22")
    /\ IF ClaimOpen
       THEN /\ TheClaim.placeOfService = Str("11")
            /\ Last(TheClaim.serviceLines).placeOfService = Str("22")
       ELSE FALSE


------------------------------------------------------------------------------
(* Properties of the shared sections (checked under Spec).                  *)

\* the document-level dicts the first six sections of a claim stand for
SharedDicts ==
    <<"transaction", "submitter", "receiver", "billing_provider", "pay_to_provider",
      "subscriber">>

\* C22: in the output for several claims the transaction, submitter,
\* receiver, billing provider, pay-to provider and subscriber sections are
\* the same for every claim: each holds the one record of the document, as
\* it stands at the end of the stream.
C22_SharedSections ==
    pc = "done" /\ Len(results) >= 2 =>
        \A i \in DOMAIN results : \A k \in DOMAIN SharedDicts :
            /\ results[i][k] = results[1][k]
            /\ results[i][k].data = ByRef(SharedDicts[k])
            /\ Deep(DataOf(results[i][k]), heap) = Deep(DocDict(SharedDicts[k]), heap)

\* two claims are returned, the first committed before the billing provider
\* was named: its section shows the billing provider all the same
C22_Witness ==
    /\ pc = "done" /\ Len(results) = 2
    /\ segments[1].seg_id = CLM /\ segments[2].seg_id = NM1
    /\ CodeOf(segments[2]) = Str("85") /\ segments[3].seg_id = CLM
    /\ DataOf(results[1][4])["name"] = Str("CLINIC")


------------------------------------------------------------------------------
(* Properties of the split into segments (checked under SpecSplit).         *)

\* the chunks of the text between terminators, from the start offset on
Chunks == Split(Tail_from(content, parse_start), seg_term)

\* the first field of a trimmed chunk: what stands before its first
\* separator
FirstField(chunk) ==
    IF IndexOf(chunk, ele_sep) = 0 THEN chunk
    ELSE SubSeq(chunk, 1, IndexOf(chunk, ele_sep) - 1)

\* the chunk is not empty after trimming, and neither is its first field
Emitted(chunk) ==
    IF Strip(chunk) = <<>> THEN FALSE ELSE Strip(FirstField(Strip(chunk))) # <<>>

EmittedChunks == SelectSeq(Chunks, Emitted)

\* C23: the segments returned are the chunks that are not empty after
\* trimming and whose first field is not empty after trimming, in the order
\* of the text; the identifier of each is its first field, trimmed and in
\* upper case, and its elements are the fields of the trimmed chunk.
C23_SplitKeepsOrder ==
    rd_pc = "done" =>
        /\ Len(segments) = Len(EmittedChunks)
        /\ \A i \in DOMAIN segments :
             /\ Join(segments[i].elements, <<ele_sep>>) = Strip(EmittedChunks[i])
             /\ segments[i].seg_id = Upper(Strip(FirstField(Strip(EmittedChunks[i]))))

\* a text has been split that has a chunk with a blank first field, which
\* is dropped, and after it a chunk whose identifier is trimmed and put in
\* upper case
C23_Witness ==
    /\ rd_pc = "done" /\ Len(segments) = 2
    /\ \E i \in DOMAIN Chunks : Strip(Chunks[i]) # <<>> /\ ~Emitted(Chunks[i])
    /\ segments[2].seg_id = Str("A") /\ segments[2].elements[1] = Str("a ")


------------------------------------------------------------------------------
(* Properties of the outcome of a parse (checked under SpecLive).           *)

\* a number Python can hold: finite, infinite or not-a-number
IsNumber(x) == x.special \in {"", "inf", "-inf", "nan"}

\* the numeric fields of a claim hold numbers
NumbersIn(claim) ==
    /\ IsNumber(claim.totalCharge)
    /\ \A i \in DOMAIN claim.serviceLines :
         /\ IsNumber(claim.serviceLines[i].lineNumber)
         /\ IsNumber(claim.serviceLines[i].charge)
         /\ IsNumber(claim.serviceLines[i].units)

\* the one outcome of the parse, once it has one
Outcome ==
    CASE pc = "done" ->
           /\ ret.kind \in {"sections", "list"}
           /\ ClaimHeaders # <<>>
           /\ \A k \in DOMAIN claims_data : NumbersIn(claims_data[k])
      [] pc = "failed" ->
           /\ ret = NoClaimError
           /\ ClaimHeaders = <<>>
      [] OTHER -> ret = NoResult

\* C24: once the delimiters are detected the parse of a finite stream ends
\* with exactly one outcome, the packaged result or, only when no CLM
\* segment was seen, the no-claim error; no segment with missing fields or
\* with numeric or date text that does not parse makes it fail.
C24_OneOutcome ==
    /\ []Outcome
    /\ <>(pc \in {"done", "failed"})

\* a stream with a bare CLM, a claim charge and a line number that do not
\* parse, and a short date has been packaged, with the defaults in place
C24_Witness ==
    /\ pc = "done" /\ Len(segments) = 4
    /\ segments[1] = X12("CLM")
    /\ segments[2] = X12("CLM*A1*12x")
    /\ segments[3] = X12("LX*one")
    /\ segments[4] = X12("DTP*472*D8*2023")
    /\ Len(claims_data) = 2
    /\ claims_data[2].totalCharge = Zero
    /\ claims_data[2].serviceLines[1].lineNumber = Zero
    /\ claims_data[2].serviceLines[1].serviceDate = Str("2023")

====
